---- MODULE Spec2Model ----
(***************************************************************************)
(* State-machine model of src/root/stringtable.c (DMD string table):       *)
(* a pooled bump allocator for StringValue records plus an open-addressing *)
(* hash table with triangular-number probing over power-of-two capacities. *)
(*                                                                         *)
(* uint32_t values (hash, vptr) are pairs <<hi, lo>> of 16-bit halves, so  *)
(* that 32-bit arithmetic keeps its width.  size_t values are integers.    *)
(* A StringValue* is [idx, off] (pool index, byte offset) or NULL.         *)
(***************************************************************************)
EXTENDS Integers, Sequences, FiniteSets, TLC

VARIABLES
    table,      \* StringEntry *table : [0..tabledim-1 -> [hash, vptr]]
    tabledim,   \* size_t tabledim
    pools,      \* uint8_t **pools : pool index -> [size, mem]
    npools,     \* size_t npools
    nfill,      \* size_t nfill
    count,      \* size_t count
    hung,       \* TRUE once a call is stuck in findSlot's probe loop
    calls,      \* findSlot calls made by the last operation (instrumentation)
    op,         \* last operation called
    arg,        \* its string argument
    size0,      \* the capacity hint given to _init
    ret,        \* the StringValue* it returned
    retv,       \* the uint32_t the last allocValue returned
    first,      \* string -> StringValue* its first successful insert/update returned
    allocs,     \* the allocValue calls so far: [vptr, idx, off] of each record
    tags,       \* StringValue* -> the payload its consumer stored in ptrvalue
    probe       \* a findSlot call in progress: its hash, i, j and the slots
                \* examined so far (NoProbe between calls)

vars == <<table, tabledim, pools, npools, nfill, count, hung, calls,
          op, arg, size0, ret, retv, first, allocs, tags, probe>>

tvars == <<table, tabledim, pools, npools, nfill, count>>

-----------------------------------------------------------------------------
(* Program constants *)

POOL_BITS == 12
POOL_SIZE == 4096
MinTableDim == 32
SizeofStringValue == 24
W16 == 256 * 256

-----------------------------------------------------------------------------
(* 16/32-bit arithmetic *)

RECURSIVE BitXor(_, _)
BitXor(a, b) ==
    IF a = 0 THEN b
    ELSE IF b = 0 THEN a
    ELSE (((a % 2) + (b % 2)) % 2) + 2 * BitXor(a \div 2, b \div 2)

RECURSIVE BitOr(_, _)
BitOr(a, b) ==
    IF a = 0 THEN b
    ELSE IF b = 0 THEN a
    ELSE (IF (a % 2) + (b % 2) > 0 THEN 1 ELSE 0) + 2 * BitOr(a \div 2, b \div 2)

RECURSIVE BitAnd(_, _)
BitAnd(a, b) ==
    IF a = 0 \/ b = 0 THEN 0
    ELSE (IF (a % 2) + (b % 2) = 2 THEN 1 ELSE 0) + 2 * BitAnd(a \div 2, b \div 2)

RECURSIVE Pow2(_)
Pow2(n) == IF n = 0 THEN 1 ELSE 2 * Pow2(n - 1)

Zero32 == <<0, 0>>

IsU32(x) == x[1] \in 0..(W16 - 1) /\ x[2] \in 0..(W16 - 1)

U32(n) == <<(n \div W16) % W16, n % W16>>

Xor32(x, y) == <<BitXor(x[1], y[1]), BitXor(x[2], y[2])>>

\* (a * b) mod 2^16 for 16-bit a, b, without leaving 31 bits
MulLo16(a, b) == ((a % 256) * b + (((a \div 256) * b) % 256) * 256) % W16

\* (a * b) div 2^16 for 16-bit a, b
MulHi16(a, b) ==
    LET p0 == (a % 256) * b
        p1 == (a \div 256) * b
    IN  ((p0 + (p1 % 256) * 256) \div W16) + (p1 \div 256)

\* x * y as uint32_t
Mul32(x, y) ==
    <<(MulHi16(x[2], y[2]) + MulLo16(x[1], y[2]) + MulLo16(x[2], y[1])) % W16,
      MulLo16(x[2], y[2])>>

\* x >> r as uint32_t, 0 < r < 32
Shr32(x, r) ==
    IF r >= 16 THEN <<0, x[1] \div Pow2(r - 16)>>
    ELSE <<x[1] \div Pow2(r),
           ((x[1] % Pow2(r)) * Pow2(16 - r)) + (x[2] \div Pow2(r))>>

-----------------------------------------------------------------------------
(* calcHash: MurmurHash2 *)

MurmurM == <<23505, 59797>>     \* 0x5bd1e995
MurmurR == 24

\* uint32_t k = *(uint32_t *)data, little endian, data = key[p+1..p+4]
Load32(key, p) == <<key[p + 4] * 256 + key[p + 3], key[p + 2] * 256 + key[p + 1]>>

\* x ^= x >> r
XorShr(x, r) == Xor32(x, Shr32(x, r))

\* k *= m; k ^= k >> r; k *= m
MixK(k0) == Mul32(XorShr(Mul32(k0, MurmurM), MurmurR), MurmurM)

\* one iteration of the while (len >= 4) loop on the block at data = key[p+1..]
HashStep(h, key, p) == Xor32(Mul32(h, MurmurM), MixK(Load32(key, p)))

\* the while loop over n consecutive 4-byte blocks starting at byte p, in
\* order (split in halves only to keep the evaluation depth logarithmic;
\* the width test makes the left half's value be computed first)
RECURSIVE HashBlocks(_, _, _, _)
HashRest(hl, key, p, n) == IF IsU32(hl) THEN HashBlocks(hl, key, p, n) ELSE hl

HashBlocks(h, key, p, n) ==
    IF n = 0 THEN h
    ELSE IF n = 1 THEN HashStep(h, key, p)
    ELSE HashRest(HashBlocks(h, key, p, n \div 2),
                  key, p + 4 * (n \div 2), n - (n \div 2))

\* the switch (len & 3) with its fall-through cases 3, 2, 1
HashCase1(h, key, p, len) ==
    IF (len % 4) >= 1 THEN Mul32(Xor32(h, <<0, key[p + 1]>>), MurmurM) ELSE h

HashCase2(h, key, p, len) ==
    HashCase1(IF (len % 4) >= 2 THEN Xor32(h, <<0, key[p + 2] * 256>>) ELSE h,
              key, p, len)

HashTail(h, key, p, len) ==
    HashCase2(IF (len % 4) = 3 THEN Xor32(h, <<key[p + 3], 0>>) ELSE h, key, p, len)

\* h ^= h >> 13; h *= m; h ^= h >> 15
HashFinal(h) == XorShr(Mul32(XorShr(h, 13), MurmurM), 15)

calcHash(key, len) ==
    HashFinal(HashTail(HashBlocks(U32(len), key, 0, len \div 4),
                       key, 4 * (len \div 4), len - 4 * (len \div 4)))

-----------------------------------------------------------------------------
(* Inputs: the byte strings the callers pass in *)

NumKeys == 32       \* number of keys the callers store in order
KeyStride == 20     \* generated Key(i) is KeyStride * (i - 1) bytes long
PosA == 3           \* Key(PosA) is StrA
StartSize == 4      \* capacity hint of the table under test
MaxSize == 120      \* largest capacity hint given to _init
MaxAllocs == 3      \* allocValue calls made by the allocator driver

\* "foobar00" and "aacq\W-?": distinct strings with calcHash 0x40826b04
StrA == <<102, 111, 111, 98, 97, 114, 48, 48>>
StrB == <<97, 97, 99, 113, 92, 87, 45, 63>>
Specials == {StrB}

\* Key(1) is the empty string
Key(i) ==
    IF i = PosA THEN StrA
    ELSE [j \in 1..(KeyStride * (i - 1)) |-> 97 + ((i + j) % 26)]
Keys == [i \in 1..(NumKeys + 1) |-> Key(i)] @@ <<>>
KeySet == {Keys[i] : i \in 1..NumKeys}
Strings == Specials \cup KeySet

\* calcHash of every input string, computed once (@@ makes the table explicit)
hashOf == [s \in Strings \cup {Keys[NumKeys + 1]} |-> calcHash(s, Len(s))] @@ <<>>

-----------------------------------------------------------------------------
(* The object: StringTable's fields, plus instrumentation *)

This ==
    [table |-> table, tabledim |-> tabledim, pools |-> pools, npools |-> npools,
     nfill |-> nfill, count |-> count, hung |-> hung, calls |-> {},
     retv |-> retv, allocs |-> allocs]

Fields(T) == <<T.table, T.tabledim, T.pools, T.npools, T.nfill, T.count>>

NULL == [idx |-> -1, off |-> -1]            \* (StringValue *)NULL
NoSlot == -1                                \* findSlot never returns
NoMem == [o \in {} |-> 0]                   \* a pool with no record yet
Wild == [ptrvalue |-> 0, length |-> -1, lstring |-> <<>>]   \* not a record

Max(a, b) == IF a > b THEN a ELSE b

-----------------------------------------------------------------------------
(* Pooled allocator and handle codec *)

\* bytes a stored record occupies: sizeof(StringValue) + length + 1
Extent(sv) == SizeofStringValue + sv.length + 1

\* variant: storing a record clears the payload of the pool's other records
StoreValueWipe(pool, off, sv, nbytes) ==
    [pool EXCEPT !.mem = [o \in DOMAIN pool.mem \cup {off} |->
                             IF o = off THEN sv
                             ELSE [pool.mem[o] EXCEPT !.ptrvalue = 0]]]

\* writing nbytes at offset off overwrites whatever record overlaps them
StoreValue(pool, off, sv, nbytes) ==
    LET kept == {o \in DOMAIN pool.mem :
                    o + Extent(pool.mem[o]) <= off \/ off + nbytes <= o}
    IN  [pool EXCEPT !.mem = [o \in kept \cup {off} |->
                                 IF o = off THEN sv ELSE pool.mem[o]]]

\* (uint32_t)(np << POOL_BITS | nf)
PackVptr(np, nf) ==
    <<BitOr((np \div Pow2(16 - POOL_BITS)) % W16, (nf \div W16) % W16),
      BitOr((np % Pow2(16 - POOL_BITS)) * Pow2(POOL_BITS), nf % W16)>>

\* variant: the test leaves out the record header
NeedsPoolNoHeader(T, nbytes) ==
    T.npools = 0 \/ T.nfill + (nbytes - SizeofStringValue) > POOL_SIZE

\* if (!npools || nfill + nbytes > POOL_SIZE)
NeedsPool(T, nbytes) == T.npools = 0 \/ T.nfill + nbytes > POOL_SIZE

\* variant: every pool is POOL_SIZE bytes
PoolBytesFixed(nbytes) == POOL_SIZE

\* mem.malloc(nbytes > POOL_SIZE ? nbytes : POOL_SIZE)
PoolBytes(nbytes) == Max(nbytes, POOL_SIZE)

allocValue(T, s, length) ==
    LET nbytes  == SizeofStringValue + length + 1
        fresh   == NeedsPool(T, nbytes)
        np      == IF fresh THEN T.npools + 1 ELSE T.npools
        pools1  == IF fresh
                   THEN [k \in DOMAIN T.pools \cup {np - 1} |->
                            IF k = np - 1
                            THEN [size |-> PoolBytes(nbytes), mem |-> NoMem]
                            ELSE T.pools[k]]
                   ELSE T.pools
        nf      == IF fresh THEN 0 ELSE T.nfill
        sv      == [ptrvalue |-> 0, length |-> length,
                    lstring |-> Append(SubSeq(s, 1, length), 0)]
        vptr    == PackVptr(np, nf)
    IN  [T EXCEPT !.pools = [pools1 EXCEPT ![np - 1] = StoreValue(@, nf, sv, nbytes)],
                  !.npools = np,
                  !.nfill = nf + nbytes + ((8 - (nbytes % 8)) % 8),
                  !.retv = vptr,
                  !.allocs = Append(@, [vptr |-> vptr, idx |-> np - 1, off |-> nf])]

\* variant: the pool index is not taken back from 1-based to 0-based
getValueNoBias(vptr) ==
    IF vptr = Zero32 THEN NULL
    ELSE [idx |-> vptr[1] * Pow2(16 - POOL_BITS) + (vptr[2] \div Pow2(POOL_BITS)),
          off |-> BitAnd(vptr[2], POOL_SIZE - 1)]

getValue(vptr) ==
    IF vptr = Zero32 THEN NULL
    ELSE [idx |-> (vptr[1] * Pow2(16 - POOL_BITS) + (vptr[2] \div Pow2(POOL_BITS))) - 1,
          off |-> BitAnd(vptr[2], POOL_SIZE - 1)]

\* *p for a StringValue *p
Deref(T, p) ==
    IF p.idx \in DOMAIN T.pools /\ p.off \in DOMAIN T.pools[p.idx].mem
    THEN T.pools[p.idx].mem[p.off]
    ELSE Wild

-----------------------------------------------------------------------------
(* Construction *)

LoadNum == 4        \* loadFactor = 0.8 = LoadNum / LoadDen
LoadDen == 5

RECURSIVE nextpow2From(_, _)
nextpow2From(res, val) == IF res < val THEN nextpow2From(2 * res, val) ELSE res

\* variant: while (res <= val)
RECURSIVE nextpow2Above(_, _)
nextpow2Above(res, val) == IF res <= val THEN nextpow2Above(2 * res, val) ELSE res

nextpow2Strict(val) == nextpow2Above(1, val)

nextpow2(val) == nextpow2From(1, val)

EmptyEntry == [hash |-> Zero32, vptr |-> Zero32]

\* the object after _init(size)
init(size) ==
    LET sz  == nextpow2((size * LoadDen) \div LoadNum)
        dim == IF sz < MinTableDim THEN MinTableDim ELSE sz
    IN  [table |-> [i \in 0..(dim - 1) |-> EmptyEntry], tabledim |-> dim,
         pools |-> NoMem, npools |-> 0, nfill |-> 0, count |-> 0,
         hung |-> FALSE, calls |-> {}, retv |-> Zero32, allocs |-> <<>>]

-----------------------------------------------------------------------------
(* Hash table *)

Mask(hash, m) == BitAnd(hash[1], m \div W16) * W16 + BitAnd(hash[2], m % W16)

\* variant: only an empty slot ends the probe
SlotMatchesEmptyOnly(T, i, hash, s, length) ==
    T.table[i].vptr = Zero32

\* variant: the bytes are not compared
SlotMatchesNoMemcmp(T, i, hash, s, length) ==
    \/ T.table[i].vptr = Zero32
    \/ /\ T.table[i].hash = hash
       /\ Deref(T, getValue(T.table[i].vptr)).length = length

SlotMatches(T, i, hash, s, length) ==
    \/ T.table[i].vptr = Zero32
    \/ /\ T.table[i].hash = hash
       /\ Deref(T, getValue(T.table[i].vptr)).length = length
       /\ SubSeq(s, 1, length) =
            SubSeq(Deref(T, getValue(T.table[i].vptr)).lstring, 1, length)

\* i = hash & (tabledim - 1), the first slot examined
ProbeStart(T, hash) == Mask(hash, T.tabledim - 1)

\* variant: the step grows as j * j
ProbeNextSquare(T, i, j) == BitAnd(i + j * j, T.tabledim - 1)

\* i = (i + j) & (tabledim - 1), the slot examined after slot i
ProbeNext(T, i, j) == BitAnd(i + j, T.tabledim - 1)

\* the probe loop from slot i with step j; <<slot, entries examined>>.
\* After 2 * tabledim entries the loop is back in the state it started in.
RECURSIVE Probe(_, _, _, _, _, _)
Probe(T, hash, s, length, i, j) ==
    IF SlotMatches(T, i, hash, s, length) THEN <<i, j>>
    ELSE IF j >= 2 * T.tabledim THEN <<NoSlot, j>>
    ELSE Probe(T, hash, s, length, ProbeNext(T, i, j), j + 1)

\* <<the slot returned (NoSlot: the loop never ends), entries examined>>
findSlot(T, hash, s, length) ==
    Probe(T, hash, s, length, ProbeStart(T, hash), 1)

\* instrumentation: note a findSlot call with result f on T's array
Logged(T, f) ==
    [T EXCEPT !.calls = @ \cup
        {[dim |-> T.tabledim, probes |-> f[2], found |-> f[1] # NoSlot,
          hasEmpty |-> \E k \in 0..(T.tabledim - 1) : T.table[k].vptr = Zero32]}]

\* the for loop of grow() from old index i on; growPlace is one pass of its
\* body once findSlot returned f for the entry otab[i]
RECURSIVE growLoop(_, _, _, _)
growPlace(T, otab, odim, i, f) ==
    IF f[1] = NoSlot THEN [Logged(T, f) EXCEPT !.hung = TRUE]
    ELSE growLoop([Logged(T, f) EXCEPT !.table[f[1]] = otab[i]], otab, odim, i + 1)

\* variant: the entry goes to its home slot whatever that slot holds
growFindHome(T, se, sv) == <<ProbeStart(T, se.hash), 1>>

\* StringValue *sv = getValue(se.vptr); findSlot(se.hash, sv->lstring, sv->length)
growFind(T, se, sv) == findSlot(T, se.hash, sv.lstring, sv.length)

growLoop(T, otab, odim, i) ==
    IF i >= odim \/ T.hung THEN T
    ELSE IF otab[i].vptr = Zero32 THEN growLoop(T, otab, odim, i + 1)
    ELSE growPlace(T, otab, odim, i,
                   growFind(T, otab[i], Deref(T, getValue(otab[i].vptr))))

\* variant: the old entries keep their old slots in the new array
growCopy(T) ==
    [T EXCEPT !.tabledim = 2 * T.tabledim,
              !.table = [i \in 0..(2 * T.tabledim - 1) |->
                            IF i < T.tabledim THEN T.table[i] ELSE EmptyEntry]]

\* variant: the new array is no larger than the old one
growNoDouble(T) ==
    growLoop([T EXCEPT !.table = [i \in 0..(T.tabledim - 1) |-> EmptyEntry]],
             T.table, T.tabledim, 0)

grow(T) ==
    growLoop([T EXCEPT !.tabledim = 2 * T.tabledim,
                       !.table = [i \in 0..(2 * T.tabledim - 1) |-> EmptyEntry]],
             T.table, T.tabledim, 0)

\* results are [T |-> the object afterwards, ret |-> the value returned]
Stuck(T) == [T |-> [T EXCEPT !.hung = TRUE], ret |-> NULL]

\* lookup after findSlot returned f: return getValue(table[i].vptr)
lookupFound(T, f) ==
    IF f[1] = NoSlot THEN Stuck(Logged(T, f))
    ELSE [T |-> Logged(T, f), ret |-> getValue(T.table[f[1]].vptr)]

lookup(T, s, length) ==
    lookupFound(T, findSlot(T, hashOf[s], s, length))

\* update: return getValue(table[i].vptr)
updateReturn(T, i) == [T |-> T, ret |-> getValue(T.table[i].vptr)]

\* update: table[i].vptr = the value allocValue returned
updateSetVptr(T, i) == updateReturn([T EXCEPT !.table[i].vptr = T.retv], i)

\* variant: the hash is not stored with the handle
updateStoreNoHash(T, hash, s, length, i) ==
    updateSetVptr(allocValue(T, s, length), i)

\* update: table[i].hash = hash; table[i].vptr = allocValue(s, length)
updateStore(T, hash, s, length, i) ==
    updateSetVptr(allocValue([T EXCEPT !.table[i].hash = hash], s, length), i)

\* update: i = findSlot(hash, s, length) after grow() returned f
updateRefound(T, hash, s, length, f) ==
    IF f[1] = NoSlot THEN Stuck(Logged(T, f))
    ELSE updateStore(Logged(T, f), hash, s, length, f[1])

\* update: after grow()
updateGrown(T, hash, s, length) ==
    IF T.hung THEN Stuck(T)
    ELSE updateRefound(T, hash, s, length, findSlot(T, hash, s, length))

\* variant: after grow() the slot found before it is used
updateCountStale(T, hash, s, length, i) ==
    IF LoadDen * T.count > LoadNum * T.tabledim
    THEN updateStore(grow(T), hash, s, length, i)
    ELSE updateStore(T, hash, s, length, i)

\* update: if (++count > tabledim * loadFactor), count already incremented
updateCount(T, hash, s, length, i) ==
    IF LoadDen * T.count > LoadNum * T.tabledim
    THEN updateGrown(grow(T), hash, s, length)
    ELSE updateStore(T, hash, s, length, i)

\* variant: the slot is filled whether or not it was empty
updateFoundNoCheck(T, hash, s, length, f) ==
    IF f[1] = NoSlot THEN Stuck(Logged(T, f))
    ELSE updateCount([Logged(T, f) EXCEPT !.count = @ + 1], hash, s, length, f[1])

\* update after the first findSlot returned f: if (!table[i].vptr) ...
updateFound(T, hash, s, length, f) ==
    IF f[1] = NoSlot THEN Stuck(Logged(T, f))
    ELSE IF T.table[f[1]].vptr = Zero32
    THEN updateCount([Logged(T, f) EXCEPT !.count = @ + 1], hash, s, length, f[1])
    ELSE updateReturn(Logged(T, f), f[1])

update(T, s, length) ==
    updateFound(T, hashOf[s], s, length, findSlot(T, hashOf[s], s, length))

\* insert: return getValue(table[i].vptr)
insertReturn(T, i) == [T |-> T, ret |-> getValue(T.table[i].vptr)]

\* insert: table[i].vptr = the value allocValue returned
insertSetVptr(T, i) == insertReturn([T EXCEPT !.table[i].vptr = T.retv], i)

\* variant: the hash is not stored with the handle
insertStoreNoHash(T, hash, s, length, i) ==
    insertSetVptr(allocValue(T, s, length), i)

\* insert: table[i].hash = hash; table[i].vptr = allocValue(s, length)
insertStore(T, hash, s, length, i) ==
    insertSetVptr(allocValue([T EXCEPT !.table[i].hash = hash], s, length), i)

\* insert: i = findSlot(hash, s, length) after grow() returned f
insertRefound(T, hash, s, length, f) ==
    IF f[1] = NoSlot THEN Stuck(Logged(T, f))
    ELSE insertStore(Logged(T, f), hash, s, length, f[1])

\* insert: after grow()
insertGrown(T, hash, s, length) ==
    IF T.hung THEN Stuck(T)
    ELSE insertRefound(T, hash, s, length, findSlot(T, hash, s, length))

\* variant: the load factor is never tested
insertCountNoGrow(T, hash, s, length, i) ==
    insertStore(T, hash, s, length, i)

\* insert: if (++count > tabledim * loadFactor), count already incremented
insertCount(T, hash, s, length, i) ==
    IF LoadDen * T.count > LoadNum * T.tabledim
    THEN insertGrown(grow(T), hash, s, length)
    ELSE insertStore(T, hash, s, length, i)

\* variant: no "already in table" return
insertFoundNoCheck(T, hash, s, length, f) ==
    IF f[1] = NoSlot THEN Stuck(Logged(T, f))
    ELSE insertCount([Logged(T, f) EXCEPT !.count = @ + 1], hash, s, length, f[1])

\* variant: count is not incremented
insertFoundNoCount(T, hash, s, length, f) ==
    IF f[1] = NoSlot THEN Stuck(Logged(T, f))
    ELSE IF T.table[f[1]].vptr # Zero32
    THEN [T |-> Logged(T, f), ret |-> NULL]
    ELSE insertCount(Logged(T, f), hash, s, length, f[1])

\* insert after the first findSlot returned f: if (table[i].vptr) return NULL
insertFound(T, hash, s, length, f) ==
    IF f[1] = NoSlot THEN Stuck(Logged(T, f))
    ELSE IF T.table[f[1]].vptr # Zero32
    THEN [T |-> Logged(T, f), ret |-> NULL]
    ELSE insertCount([Logged(T, f) EXCEPT !.count = @ + 1], hash, s, length, f[1])

insert(T, s, length) ==
    insertFound(T, hashOf[s], s, length, findSlot(T, hashOf[s], s, length))

-----------------------------------------------------------------------------
(* The state machine *)

NoStrings == [x \in {} |-> NULL]
NoTags == [p \in {} |-> 0]
NoProbe == [hash |-> Zero32, i |-> -1, j |-> 0, seen |-> <<>>]

Commit(T) ==
    /\ table' = T.table
    /\ tabledim' = T.tabledim
    /\ pools' = T.pools
    /\ npools' = T.npools
    /\ nfill' = T.nfill
    /\ count' = T.count
    /\ hung' = T.hung
    /\ calls' = T.calls
    /\ retv' = T.retv
    /\ allocs' = T.allocs

\* the object right after _init(n)
Constructed(n) ==
    /\ table = init(n).table
    /\ tabledim = init(n).tabledim
    /\ pools = init(n).pools
    /\ npools = init(n).npools
    /\ nfill = init(n).nfill
    /\ count = init(n).count
    /\ hung = FALSE
    /\ calls = {}
    /\ retv = Zero32
    /\ allocs = <<>>
    /\ op = "_init"
    /\ arg = <<>>
    /\ size0 = n
    /\ ret = NULL
    /\ first = NoStrings
    /\ tags = NoTags
    /\ probe = NoProbe

Init == Constructed(StartSize)

\* the callers store the generated keys in order: Keys[nkeys + 1] is the
\* next one not yet in the table
nkeys == Cardinality({i \in 1..NumKeys : Keys[i] \in DOMAIN first})

\* strings a call may be made with: the special strings, the last key
\* stored and the next key
Offered == Specials \cup {Keys[i] : i \in {nkeys, nkeys + 1} \cap (1..NumKeys)}

Record(name, s, r) ==
    /\ op' = name
    /\ arg' = s
    /\ ret' = r.ret
    /\ size0' = size0
    /\ tags' = tags
    /\ probe' = probe
    /\ first' = IF name \in {"insert", "update"} /\ r.ret # NULL /\ s \notin DOMAIN first
                THEN [x \in DOMAIN first \cup {s} |-> IF x = s THEN r.ret ELSE first[x]]
                ELSE first

Lookup(s) ==
    /\ ~hung
    /\ \E r \in {lookup(This, s, Len(s))} :
          Commit(r.T) /\ Record("lookup", s, r)

Update(s) ==
    /\ ~hung
    /\ \E r \in {update(This, s, Len(s))} :
          Commit(r.T) /\ Record("update", s, r)

Insert(s) ==
    /\ ~hung
    /\ \E r \in {insert(This, s, Len(s))} :
          Commit(r.T) /\ Record("insert", s, r)

Next ==
    \/ \E s \in Offered : Lookup(s)
    \/ \E s \in Offered : Update(s)
    \/ \E s \in Offered : Insert(s)

Spec == Init /\ [][Next]_vars

-----------------------------------------------------------------------------
(* The table with a consumer that attaches metadata: the consumer keeps the *)
(* StringValue* a successful insert/update returned and stores a value in   *)
(* its ptrvalue field.                                                      *)

TagStrings == {StrA, StrB}
PayloadOf(s) == IF s = StrA THEN 1 ELSE 2

\* sv->ptrvalue = v, made by the consumer on the record of s
SetPayload(s) ==
    /\ ~hung
    /\ s \in DOMAIN first
    /\ first[s] \notin DOMAIN tags
    /\ pools' = [pools EXCEPT
                    ![first[s].idx].mem[first[s].off].ptrvalue = PayloadOf(s)]
    /\ tags' = [p \in DOMAIN tags \cup {first[s]} |->
                    IF p = first[s] THEN PayloadOf(s) ELSE tags[p]]
    /\ op' = "setPayload"
    /\ arg' = s
    /\ ret' = first[s]
    /\ calls' = {}
    /\ UNCHANGED <<table, tabledim, npools, nfill, count, hung, size0, retv,
                   first, allocs, probe>>

NextP ==
    \/ Next
    \/ \E s \in TagStrings : SetPayload(s)

SpecPayload == Init /\ [][NextP]_vars

-----------------------------------------------------------------------------
(* Construction alone: _init called with every capacity hint *)

Construct(n) ==
    /\ Commit(init(n))
    /\ op' = "_init"
    /\ arg' = <<>>
    /\ size0' = n
    /\ ret' = NULL
    /\ first' = NoStrings
    /\ tags' = NoTags
    /\ probe' = NoProbe

InitC == \E n \in 0..MaxSize : Constructed(n)

NextC == \E n \in 0..MaxSize : Construct(n)

SpecInit == InitC /\ [][NextC]_vars

-----------------------------------------------------------------------------
(* The allocator alone: allocValue called on allocator states with few and *)
(* with many pools.  A table holding n pools of one 4071-byte record each  *)
(* has npools = n and nfill = POOL_SIZE; the earlier pools' contents are   *)
(* not followed.                                                           *)

StartPools == {0, Pow2(32 - POOL_BITS) - 2}
\* lengths whose records are 25, 32 and 33 bytes, fill the rest of a pool
\* after a 32-byte record exactly (4064 bytes) or exceed it by one, fill a
\* whole pool exactly (4096 bytes), and exceed POOL_SIZE (4097 bytes)
AllocLens ==
    {0, 7, 8,
     POOL_SIZE - SizeofStringValue - 33, POOL_SIZE - SizeofStringValue - 32,
     POOL_SIZE - SizeofStringValue - 1, POOL_SIZE - SizeofStringValue}

Blank(len) == [j \in 1..len |-> 120]

InitA ==
    \E n \in StartPools :
        /\ table = init(StartSize).table
        /\ tabledim = init(StartSize).tabledim
        /\ pools = NoMem
        /\ npools = n
        /\ nfill = IF n = 0 THEN 0 ELSE POOL_SIZE
        /\ count = 0
        /\ hung = FALSE
        /\ calls = {}
        /\ retv = Zero32
        /\ allocs = <<>>
        /\ op = "_init"
        /\ arg = <<>>
        /\ size0 = StartSize
        /\ ret = NULL
        /\ first = NoStrings
        /\ tags = NoTags
        /\ probe = NoProbe

AllocStep(len) ==
    /\ Len(allocs) < MaxAllocs
    /\ \E T \in {allocValue(This, Blank(len), len)} :
          Commit(T) /\ ret' = getValue(T.retv)
    /\ op' = "allocValue"
    /\ arg' = Blank(len)
    /\ UNCHANGED <<size0, first, tags, probe>>

NextA == \E len \in AllocLens : AllocStep(len)

SpecAlloc == InitA /\ [][NextA]_vars

-----------------------------------------------------------------------------
(* findSlot alone, one pass of its for loop at a time, on arrays of every   *)
(* power-of-two capacity in which no slot ends the loop: every entry is     *)
(* occupied and holds a hash other than the one searched for.               *)

MaxProbeBits == 6
ProbeDims == {Pow2(k) : k \in 0..MaxProbeBits}
ProbeHashes ==
    {<<0, lo>> : lo \in 0..(Pow2(MaxProbeBits) - 1)}
        \cup {hashOf[StrA], <<W16 - 1, W16 - 1>>}

OtherEntry(hash) == [hash |-> Xor32(hash, <<1, 0>>), vptr |-> PackVptr(1, 0)]

InitF ==
    \E dim \in ProbeDims : \E h \in ProbeHashes :
        /\ table = [i \in 0..(dim - 1) |-> OtherEntry(h)]
        /\ tabledim = dim
        /\ pools = allocValue(init(StartSize), <<>>, 0).pools
        /\ npools = 1
        /\ nfill = allocValue(init(StartSize), <<>>, 0).nfill
        /\ count = dim
        /\ hung = FALSE
        /\ calls = {}
        /\ retv = Zero32
        /\ allocs = <<>>
        /\ op = "findSlot"
        /\ arg = <<>>
        /\ size0 = StartSize
        /\ ret = NULL
        /\ first = NoStrings
        /\ tags = NoTags
        /\ probe = [hash |-> h, i |-> ProbeStart([tabledim |-> dim], h), j |-> 1,
                    seen |-> <<ProbeStart([tabledim |-> dim], h)>>]

\* one pass of the loop body at a slot that does not match: i = (i + j) & ..., ++j
FindSlotStep ==
    /\ probe.i # NoProbe.i
    /\ Len(probe.seen) <= tabledim
    /\ ~SlotMatches(This, probe.i, probe.hash, arg, Len(arg))
    /\ probe' = [probe EXCEPT !.i = ProbeNext(This, probe.i, probe.j),
                              !.j = @ + 1,
                              !.seen = Append(@, ProbeNext(This, probe.i, probe.j))]
    /\ UNCHANGED <<table, tabledim, pools, npools, nfill, count, hung, calls,
                   op, arg, size0, ret, retv, first, allocs, tags>>

NextF == FindSlotStep

SpecProbe == InitF /\ [][NextF]_vars

-----------------------------------------------------------------------------
(* Properties *)

IsPow2(n) == \E k \in 0..20 : n = Pow2(k)

\* what lookup(s) returns in the current state
Look(s) == lookup(This, s, Len(s)).ret

\* what update(s) would return in the current state
Upd(s) == update(This, s, Len(s)).ret

\* the record p points to holds exactly the string s
Holds(p, s) ==
    /\ Deref(This, p).length = Len(s)
    /\ SubSeq(Deref(This, p).lstring, 1, Len(s)) = s

Occupied == {i \in 0..(tabledim - 1) : table[i].vptr # Zero32}

EntryValue(i) == Deref(This, getValue(table[i].vptr))

PoolRecords == UNION {{<<k, o>> : o \in DOMAIN pools[k].mem} : k \in DOMAIN pools}

LastAlloc == getValue(allocs[Len(allocs)].vptr)

\* C1: once insert(s) (or update(s)) has returned a record, lookup(s)
\* returns a record whose length and bytes equal s, in every later state.
C1_RoundTrip ==
    \A s \in DOMAIN first : Look(s) # NULL /\ Holds(Look(s), s)

C1_Witness ==
    /\ op = "lookup" /\ arg = StrB /\ StrB \in DOMAIN first
    /\ ret # NULL /\ Holds(ret, StrB)
    /\ Len(allocs) >= 3

\* C2: no two occupied entries reference records with the same length and
\* bytes, and the number of records allocated in the pools equals the number
\* of distinct strings passed to a successful insert or update.
C2_Dedup ==
    /\ \A i \in Occupied : \A j \in Occupied :
          i < j => \/ EntryValue(i).length # EntryValue(j).length
                   \/ EntryValue(i).lstring # EntryValue(j).lstring
    /\ Len(allocs) = Cardinality(DOMAIN first)
    /\ Cardinality(PoolRecords) = Cardinality(DOMAIN first)

C2_Witness ==
    /\ op = "update" /\ arg = StrB
    /\ {StrA, StrB} \subseteq DOMAIN first
    /\ ret = first[StrB] /\ ret # LastAlloc
    /\ Cardinality(DOMAIN first) >= 3

\* C3: insert(s) on a string already in the table returns NULL and leaves
\* count, capacity, every entry, the pools and the bump cursor unchanged.
C3_InsertPresent ==
    [][(op' = "insert" /\ arg' \in DOMAIN first) =>
            (ret' = NULL /\ UNCHANGED tvars)]_vars

C3_Witness ==
    /\ op = "insert" /\ ret = NULL /\ arg \in DOMAIN first
    /\ count >= 2

\* C4: update(s) on a stored string returns the record its first successful
\* insert(s) or update(s) returned and changes no table state; two
\* consecutive update(s) calls return the same record.
C4_IdempotentUpdate ==
    [][/\ (op' = "update" /\ arg' \in DOMAIN first) =>
             (ret' = first[arg'] /\ ret' # NULL /\ UNCHANGED tvars)
       /\ (op' = "update" /\ op = "update" /\ arg' = arg) =>
             (ret' = ret /\ UNCHANGED tvars)
       /\ (op' = "update" /\ op = "insert" /\ ret # NULL /\ arg' = arg) =>
             ret' = ret]_vars

C4_Witness ==
    /\ op = "update" /\ arg \in DOMAIN first
    /\ ret = first[arg] /\ ret # LastAlloc /\ Holds(ret, arg)

\* C5: the record under which s was first stored is the one lookup(s) and
\* update(s) resolve to in every later state, also after growth, and its
\* length and bytes stay those of s.
C5_StableIdentity ==
    \A s \in DOMAIN first :
        /\ Look(s) = first[s]
        /\ Upd(s) = first[s]
        /\ Holds(first[s], s)

C5_Witness ==
    /\ tabledim = 2 * MinTableDim /\ npools >= 2
    /\ op = "lookup" /\ arg \in DOMAIN first /\ ret = first[arg]
    /\ ret # LastAlloc

\* C6: lookup(s) returns NULL iff s was never passed to a successful insert
\* or update, and a record it returns holds exactly s; also for the empty
\* string and for strings with equal hash or equal home slot.
C6_LookupSound ==
    \A s \in Strings :
        /\ (Look(s) = NULL) <=> (s \notin DOMAIN first)
        /\ Look(s) # NULL => Holds(Look(s), s)

C6_Witness ==
    /\ hashOf[StrA] = hashOf[StrB]
    /\ op = "lookup" /\ arg = StrB /\ ret = NULL
    /\ StrA \in DOMAIN first /\ <<>> \in DOMAIN first
    /\ Look(<<>>) # NULL
    /\ \E s \in DOMAIN first : \E t \in DOMAIN first :
          /\ hashOf[s] # hashOf[t]
          /\ Mask(hashOf[s], tabledim - 1) = Mask(hashOf[t], tabledim - 1)

\* C7: after construction and after every insert or update,
\* 5 * count <= 4 * capacity and the capacity is a power of two.
C7_LoadFactor ==
    /\ LoadDen * count <= LoadNum * tabledim
    /\ IsPow2(tabledim)

C7_Witness ==
    /\ op \in {"insert", "update"}
    /\ tabledim = 2 * MinTableDim
    /\ LoadDen * (count - 1) <= LoadNum * MinTableDim
    /\ LoadDen * count > LoadNum * MinTableDim

\* C8: every findSlot call is made on an array with an empty slot and
\* returns after examining at most capacity entries.
C8_FindSlotTerminates ==
    /\ ~hung
    /\ \A c \in calls : c.found /\ c.hasEmpty /\ c.probes <= c.dim

C8_Witness ==
    /\ op \in {"insert", "update"}
    /\ \E c \in calls : c.dim = MinTableDim
    /\ \E c \in calls : c.dim = 2 * MinTableDim /\ c.probes > 1

SmallestPow2AtLeast(x) ==
    CHOOSE p \in {Pow2(k) : k \in 0..20} :
        p >= x /\ \A q \in {Pow2(k) : k \in 0..20} : q >= x => p <= q

\* C9: a table constructed with hint n has count 0, no pools, all entries
\* empty and capacity the smallest power of two >= the integer part of
\* n / 0.8, raised to 32 when that is below 32.
C9_Construction ==
    /\ count = 0 /\ npools = 0 /\ DOMAIN pools = {}
    /\ DOMAIN table = 0..(tabledim - 1)
    /\ \A i \in 0..(tabledim - 1) : table[i] = EmptyEntry
    /\ tabledim = Max(MinTableDim, SmallestPow2AtLeast((size0 * LoadDen) \div LoadNum))

C9_Witness ==
    /\ size0 = 103 /\ tabledim = 4 * MinTableDim

\* C10: every handle allocValue produced is nonzero and is the untruncated
\* value (poolIndex + 1) << 12 | offset with 0 <= offset < 4096, getValue
\* decodes it to that pool and offset, and distinct records have distinct
\* handles, for any number of pools.
C10_HandleValid ==
    \A k \in 1..Len(allocs) :
        /\ allocs[k].vptr # Zero32
        /\ allocs[k].off \in 0..(POOL_SIZE - 1)
        /\ allocs[k].vptr[1] = (allocs[k].idx + 1) \div Pow2(16 - POOL_BITS)
        /\ allocs[k].vptr[2] =
              ((allocs[k].idx + 1) % Pow2(16 - POOL_BITS)) * POOL_SIZE + allocs[k].off
        /\ getValue(allocs[k].vptr) = [idx |-> allocs[k].idx, off |-> allocs[k].off]
        /\ \A m \in 1..Len(allocs) : m # k => allocs[m].vptr # allocs[k].vptr

\* C11: a record's payload is zero when the record is created and is
\* afterwards whatever its consumer last stored in it: no lookup, insert,
\* update, growth or allocation of another record changes it, and it is read
\* back through lookup unchanged.
C11_Payload ==
    /\ \A r \in PoolRecords :
          pools[r[1]].mem[r[2]].ptrvalue =
             IF [idx |-> r[1], off |-> r[2]] \in DOMAIN tags
             THEN tags[[idx |-> r[1], off |-> r[2]]] ELSE 0
    /\ \A s \in TagStrings :
          (s \in DOMAIN first /\ first[s] \in DOMAIN tags) =>
              Deref(This, Look(s)).ptrvalue = PayloadOf(s)

C11_Witness ==
    /\ tabledim = 2 * MinTableDim /\ npools >= 2
    /\ {StrA, StrB} \subseteq DOMAIN first
    /\ {first[StrA], first[StrB]} \subseteq DOMAIN tags
    /\ op = "lookup" /\ arg = StrB /\ Deref(This, ret).ptrvalue = 2
    /\ Deref(This, first[StrA]).ptrvalue = 1
    /\ \E r \in PoolRecords : pools[r[1]].mem[r[2]].ptrvalue = 0

Min(a, b) == IF a < b THEN a ELSE b

\* C12: for every power-of-two capacity C and hash h, the slots findSlot
\* examines are i_0 = h mod C and i_k = (i_(k-1) + k) mod C, and the first C
\* of them are pairwise distinct.
C12_ProbeSequence ==
    probe.i # NoProbe.i =>
        /\ probe.seen[1] = probe.hash[2] % tabledim
        /\ \A k \in 2..Len(probe.seen) :
              probe.seen[k] = (probe.seen[k - 1] + (k - 1)) % tabledim
        /\ \A a \in 1..Min(Len(probe.seen), tabledim) :
              \A b \in 1..Min(Len(probe.seen), tabledim) :
                 a < b => probe.seen[a] # probe.seen[b]

C12_Witness ==
    /\ tabledim = Pow2(MaxProbeBits) /\ Len(probe.seen) = tabledim + 1
    /\ probe.hash = hashOf[StrA]
    /\ {probe.seen[k] : k \in 1..tabledim} = 0..(tabledim - 1)
    /\ probe.seen[tabledim + 1] = probe.seen[tabledim]

OccSlots(T) == {k \in 0..(T.tabledim - 1) : T.table[k].vptr # Zero32}

OccPairs(T) == {T.table[k] : k \in OccSlots(T)}

\* the object on which insert/update call grow(): count already incremented
Counted == [This EXCEPT !.count = @ + 1]

\* G is T after grow()
GrowExact(T, G) ==
    /\ ~G.hung
    /\ G.tabledim = 2 * T.tabledim
    /\ DOMAIN G.table = 0..(G.tabledim - 1)
    /\ OccPairs(G) = OccPairs(T)
    /\ Cardinality(OccSlots(G)) = Cardinality(OccSlots(T))
    /\ Cardinality(OccSlots(T)) = Cardinality(OccPairs(T))
    /\ G.count = T.count
    /\ G.pools = T.pools /\ G.npools = T.npools /\ G.nfill = T.nfill

\* the step's new array is G's with one empty slot filled
GrownInto(G) ==
    /\ tabledim' = G.tabledim
    /\ \E i \in 0..(G.tabledim - 1) :
          /\ G.table[i].vptr = Zero32
          /\ table'[i].vptr # Zero32
          /\ table' = [G.table EXCEPT ![i] = table'[i]]
    /\ count' = G.count
    /\ \A r \in PoolRecords : pools'[r[1]].mem[r[2]] = pools[r[1]].mem[r[2]]

\* C13: a step in which the table grows calls grow() once; grow doubles the
\* capacity, its new array holds exactly the old array's occupied
\* {hash, vptr} pairs, each once and unchanged, and count, pools, npools,
\* nfill and every record are as before.
C13_Grow ==
    [][tabledim' # tabledim =>
          (GrowExact(Counted, grow(Counted)) /\ GrownInto(grow(Counted)))]_vars

C13_Witness ==
    /\ op \in {"insert", "update"} /\ arg # StrB
    /\ tabledim = 2 * MinTableDim
    /\ count = Cardinality(OccSlots(This))
    /\ LoadDen * (count - 1) <= LoadNum * MinTableDim
    /\ LoadDen * count > LoadNum * MinTableDim
    /\ {StrA, StrB} \subseteq DOMAIN first
    /\ Cardinality({c \in calls : c.dim = tabledim /\ c.probes > 1}) >= 1

\* the step stored {hash of arg', the new handle} in slot f[1] of T's array,
\* f being what findSlot returns on T, and that slot was empty
StoredAt(T, f) ==
    /\ f[1] # NoSlot
    /\ T.table[f[1]].vptr = Zero32
    /\ retv' # Zero32
    /\ table' = [T.table EXCEPT ![f[1]] = [hash |-> hashOf[arg'], vptr |-> retv']]
    /\ ret' = getValue(retv')

StoredAtNew(T) == StoredAt(T, findSlot(T, hashOf[arg'], arg', Len(arg')))

Triggered ==
    /\ count' = count + 1
    /\ tabledim' = IF LoadDen * (count + 1) > LoadNum * tabledim
                   THEN 2 * tabledim ELSE tabledim
    /\ LoadDen * count' <= LoadNum * tabledim'
    /\ IF LoadDen * (count + 1) > LoadNum * tabledim
       THEN StoredAtNew(grow(Counted)) ELSE StoredAtNew(This)
    /\ tabledim = MinTableDim => ((tabledim' # tabledim) <=> (count + 1 = 26))

\* C14: an insert or update of an absent string grows the table iff
\* count + 1 > 0.8 * capacity, by one doubling, after which
\* count <= 0.8 * capacity; the new entry goes to the slot findSlot returns
\* on the array the call ends with; a table of capacity 32 first grows on
\* the 26th distinct string.
C14_GrowthTrigger ==
    [][(op' \in {"insert", "update"} /\ arg' \notin DOMAIN first) => Triggered]_vars

C14_Witness ==
    /\ op = "update" /\ ret # NULL
    /\ tabledim = 2 * MinTableDim /\ count = 26
    /\ \E c \in calls : c.dim = MinTableDim
    /\ table[Mask(hashOf[arg], tabledim - 1)] = [hash |-> hashOf[arg], vptr |-> retv]
    /\ Mask(hashOf[arg], tabledim - 1) >= MinTableDim

RecordAt(P, r) == P[r[1]].mem[r[2]]

\* every record of P lies inside its pool's buffer
RecordsInside(P) ==
    \A k \in DOMAIN P : \A o \in DOMAIN P[k].mem :
        o >= 0 /\ o + Extent(P[k].mem[o]) <= P[k].size

\* no two records of one pool of P share a byte
RecordsApart(P) ==
    \A k \in DOMAIN P : \A o1 \in DOMAIN P[k].mem : \A o2 \in DOMAIN P[k].mem :
        o1 < o2 => o1 + Extent(P[k].mem[o1]) <= o2

\* every record allocValue created is still where it was put
AllStored(P, A) ==
    \A k \in 1..Len(A) : A[k].idx \in DOMAIN P /\ A[k].off \in DOMAIN P[A[k].idx].mem

\* C15: after every allocValue each record lies inside its pool's buffer,
\* no two records of a pool overlap, and every record stored before the call
\* is still there with the same bytes, also when the call starts a new pool.
C15_PoolBoundary ==
    [][/\ RecordsInside(pools') /\ RecordsApart(pools') /\ AllStored(pools', allocs')
       /\ \A r \in PoolRecords :
             /\ r[1] \in DOMAIN pools' /\ r[2] \in DOMAIN pools'[r[1]].mem
             /\ RecordAt(pools', r) = RecordAt(pools, r)]_vars

C15_Witness ==
    /\ op = "allocValue" /\ Len(allocs) = 3 /\ npools = 2
    /\ allocs[2].idx = 0 /\ allocs[2].off > 0
    /\ allocs[2].off + Extent(pools[0].mem[allocs[2].off]) = POOL_SIZE
    /\ allocs[3].idx = 1 /\ allocs[3].off = 0
    /\ Cardinality(DOMAIN pools[0].mem) = 2

\* bytes the record of a string of len bytes needs
Required(len) == SizeofStringValue + len + 1

\* the allocValue step put its record (the last of allocs') in a new pool
\* iff fresh, at offset 0 of a pool of max(required, POOL_SIZE) bytes, and
\* otherwise at the cursor of the last pool
Selected(required, fresh) ==
    /\ npools' = IF fresh THEN npools + 1 ELSE npools
    /\ allocs'[Len(allocs')].idx = npools' - 1
    /\ allocs'[Len(allocs')].off = IF fresh THEN 0 ELSE nfill
    /\ fresh => pools'[npools' - 1].size = Max(required, POOL_SIZE)
    /\ \A k \in DOMAIN pools : pools'[k].size = pools[k].size
    /\ \A k \in DOMAIN pools' :
          pools'[k].size > POOL_SIZE => DOMAIN pools'[k].mem = {0}

\* C16: allocValue starts a new pool exactly when there is no pool or
\* nfill + required > POOL_SIZE; the new pool has max(required, POOL_SIZE)
\* bytes and the record is at its offset 0, otherwise the record is at nfill
\* in the last pool; a pool larger than POOL_SIZE holds one record and the
\* allocation after it starts a new pool.
C16_PoolSelection ==
    [][op' = "allocValue" =>
          /\ Selected(Required(Len(arg')),
                      npools = 0 \/ nfill + Required(Len(arg')) > POOL_SIZE)
          /\ (op = "allocValue" /\ Required(Len(arg)) > POOL_SIZE)
                 => npools' = npools + 1]_vars

C16_Witness ==
    /\ op = "allocValue" /\ Len(allocs) = 3 /\ arg = <<>>
    /\ allocs[1].idx = 0 /\ allocs[2].idx = 1 /\ allocs[3].idx = 2
    /\ pools[0].size = POOL_SIZE /\ nfill < POOL_SIZE
    /\ pools[1].size = POOL_SIZE + 1 /\ DOMAIN pools[1].mem = {0}
    /\ pools[2].size = POOL_SIZE

\* the step ended in the table state and return value r
SameAs(r) == tvars' = Fields(r.T) /\ ret' = r.ret /\ ret' # NULL

\* C17: on a string not in the table, an update step ends in the table
\* state and returns the record insert would, and an insert step those
\* update would; on a string in the table update returns its record and
\* insert returns NULL, neither changing the table.
C17_UpdateInsertAgree ==
    [][/\ (op' = "update" /\ arg' \notin DOMAIN first)
             => SameAs(insert(This, arg', Len(arg')))
       /\ (op' = "insert" /\ arg' \notin DOMAIN first)
             => SameAs(update(This, arg', Len(arg')))
       /\ (op' = "update" /\ arg' \in DOMAIN first)
             => (ret' = first[arg'] /\ insert(This, arg', Len(arg')).ret = NULL
                 /\ Fields(insert(This, arg', Len(arg')).T) = tvars')
       /\ (op' = "insert" /\ arg' \in DOMAIN first)
             => (ret' = NULL /\ update(This, arg', Len(arg')).ret = first[arg']
                 /\ Fields(update(This, arg', Len(arg')).T) = tvars')]_vars

C17_Witness ==
    /\ op = "update" /\ arg = StrB /\ ret = LastAlloc
    /\ tabledim = 2 * MinTableDim /\ count = 26
    /\ StrA \in DOMAIN first
    /\ \E c \in calls : c.dim = tabledim /\ c.probes > 1

\* the bytes of the record sv, without the terminator
Bytes(sv) == SubSeq(sv.lstring, 1, sv.length)

\* the occupied entry at slot i of T is where findSlot finds its own string
ChainedAt(T, i, sv) ==
    /\ sv # Wild
    /\ Bytes(sv) \in DOMAIN hashOf
    /\ T.table[i].hash = hashOf[Bytes(sv)]
    /\ findSlot(T, T.table[i].hash, Bytes(sv), sv.length)[1] = i

Chained(T) ==
    ~T.hung /\ \A i \in OccSlots(T) : ChainedAt(T, i, Deref(T, getValue(T.table[i].vptr)))

\* C18: in every state between operations each occupied entry holds the
\* hash of its record's bytes and sits where findSlot, started from that
\* hash's home slot, finds those bytes; so does the array grow() builds.
C18_ProbeChain ==
    /\ Chained(This)
    /\ LoadDen * (count + 1) > LoadNum * tabledim => Chained(grow(Counted))

C18_Witness ==
    /\ op \in {"insert", "update"} /\ ret # NULL
    /\ tabledim = 2 * MinTableDim /\ count > 26
    /\ {StrA, StrB} \subseteq DOMAIN first
    /\ Cardinality({i \in OccSlots(This) :
                       Mask(table[i].hash, tabledim - 1) # i}) >= 2

\* count is the number of occupied entries and of records in the pools
Counts ==
    /\ count = Cardinality(Occupied)
    /\ count = Cardinality(PoolRecords)
    /\ count = Len(allocs)

\* C19: between operations count equals the number of occupied entries and
\* the number of records in the pools; no step decreases count, the
\* capacity or the number of pools, and the entry and record of every
\* stored string are still in the table after the step.
C19_CountBookkeeping ==
    [][/\ Counts /\ Counts'
       /\ count' >= count /\ tabledim' >= tabledim /\ npools' >= npools
       /\ OccPairs(This) \subseteq OccPairs(This)'
       /\ \A r \in PoolRecords :
             /\ r[1] \in DOMAIN pools' /\ r[2] \in DOMAIN pools'[r[1]].mem
             /\ RecordAt(pools', r) = RecordAt(pools, r)]_vars

C19_Witness ==
    /\ op \in {"insert", "update"} /\ ret # NULL
    /\ tabledim = 2 * MinTableDim /\ npools >= 3
    /\ count = NumKeys + 1
    /\ count = Cardinality(Occupied) /\ count = Cardinality(PoolRecords)

====
